---- MODULE Spec2Model ----
(***************************************************************************)
(* A model of claude-stt's hotkey listener (src/src/claude_stt/hotkey.py)  *)
(* and of its daemon supervision protocol (src/src/claude_stt/daemon.py).  *)
(*                                                                         *)
(* Spec        the listener as the tests drive it: press and release       *)
(*             events on a constructed listener, and its dispatch worker.  *)
(* LifeSpec    the listener under start() and stop(), with key events      *)
(*             delivered by the hook thread while it runs.                 *)
(* StartSpec   invocations of start, foreground and background, running   *)
(*             as concurrent processes over one registry file and one      *)
(*             process table.                                              *)
(* StopSpec    one invocation of stop or toggle at a time, against daemons *)
(*             that come up and leave, deaths and pid reuse.               *)
(* StopAnySpec invocations of stop over a registry file that holds any     *)
(*             number, a process id or not.                                *)
(* WriteSpec   invocations of start writing their registry entry on a     *)
(*             file system that may refuse each step.                      *)
(* StatusSpec  invocations of status over a registry entry left behind,   *)
(*             among processes of this user and of other users.            *)
(* FileSpec    one reader of the registry file against writers and        *)
(*             unlinks, from every content the file may have.              *)
(* ConstructSpec  the constructor of the listener on hotkey strings.       *)
(***************************************************************************)
EXTENDS Integers, Sequences, FiniteSets, TLC

\* ---------------------------------------------------------------- bounds

\* Events handed to _enqueue_event in one behaviour: enough to fill the
\* queue behind a callback that is still running.
MaxEmits == 10

\* Worker threads the listener may create in one behaviour.
MaxThreads == 3

\* Parts, between "+" signs, of a hotkey string given to the constructor.
MaxParts == 3

\* Events the handlers emit, and times the combination comes to be held, in
\* one behaviour of a listener that is started and stopped.
MaxPresses == 3

\* Calls of start() and stop() in one behaviour.
MaxCalls == 3

\* ------------------------------------------------------ hotkey.py: state

VARIABLES
    mode,            \* self.mode
    pressed_keys,    \* self._pressed_keys
    hotkey_active,   \* self._hotkey_active
    is_recording,    \* self._is_recording
    event_queue,     \* self._event_queue, oldest first
    worker_thread,   \* self._worker_thread: 0 is None, else a thread id
    worker_stop,     \* self._worker_stop (threading.Event)
    threads,         \* every worker thread created so far: id -> position
    log,             \* history: labels handed to _enqueue_event, in order
    n_rise,          \* history: times pressed_keys came to hold the combination
    ev,              \* history: the last press or release event
    ctor,            \* the call HotkeyListener(hotkey=...): its argument, how
                     \* far it is, and self._hotkey_keys
    raised,          \* history: some callback has raised an exception
    listener,        \* self._listener: "none" is None, else the pynput thread
    hook,            \* the input-hook thread inside _on_press or _on_release
    caller,          \* the thread that calls start() and stop(): its position
                     \* and the calls it has made
    order            \* history: the number of each item of the queue, of the
                     \* item each worker holds, and of the last callback
                     \* called; the numbers of the events that were accepted
                     \* while the listener was running

\* The listener's threads other than the workers, and its pynput thread.
callVars == <<listener, hook, caller>>

hotkeyVars == <<mode, pressed_keys, hotkey_active, is_recording, event_queue,
                worker_thread, worker_stop, threads, log, n_rise, ev, ctor,
                raised, callVars, order>>

\* ------------------------------------------------------ daemon.py: state

VARIABLES
    pid_file,      \* the registry file, daemon.pid
    procs,         \* the process table, and where each invocation of start is
    client         \* the invocation of stop or toggle, and what it did so far

daemonVars == <<pid_file, procs, client>>

\* --------------------------------- daemon.py: the registry file, in detail

VARIABLES
    temp,          \* the temporary file of each process inside _write_pid_file
    reader,        \* one call of _read_pid_file: its position, text and result
    written        \* history: the file at the start, and the pid of the last
                   \* os.replace if nothing changed the file since (else 0)

regVars == <<temp, reader, written>>

vars == <<hotkeyVars, daemonVars, regVars>>

\* queue.Queue(maxsize=8)
QueueMaxSize == 8

Modes == {"toggle", "push-to-talk"}

\* HotkeyListener(hotkey="ctrl+shift+space"): the parsed combination.
HotkeyKeys == {"ctrl", "shift", "space"}

\* What the input hook can deliver: Key members, their left/right variants,
\* character key codes, and None for a key pynput does not know.
RawKeys == {"ctrl_l", "ctrl_r", "shift", "space", "char_space", "char_A", "None"}

\* _normalize_key
NormalizeKey(key) ==
    CASE key = "char_space" -> "space"
      [] key = "char_A" -> "char_a"
      [] key \in {"ctrl_l", "ctrl_r"} -> "ctrl"
      [] OTHER -> key

NormalKeys == {NormalizeKey(k) : k \in RawKeys} \ {"None"}

ThreadIds == 1..MaxThreads

\* threading.Thread.is_alive()
IsAlive(t) == threads[t] \in {"loop", "get", "got", "callback", "except"}

\* _ensure_worker: the thread table, the thread reference and the stop flag
\* after the call.
EnsureWorker ==
    IF worker_thread # 0 /\ IsAlive(worker_thread)
    THEN [threads |-> threads, worker_thread |-> worker_thread,
          worker_stop |-> worker_stop]
    ELSE LET t == CHOOSE i \in ThreadIds :
                      threads[i] = "unborn" /\ \A j \in 1..(i - 1) : threads[j] # "unborn"
         IN [threads |-> [threads EXCEPT ![t] = "loop"], worker_thread |-> t,
             worker_stop |-> FALSE]

\* _ensure_worker needs a fresh thread and the bound leaves none.
WorkerAvailable ==
    \/ worker_thread # 0 /\ IsAlive(worker_thread)
    \/ \E i \in ThreadIds : threads[i] = "unborn"

\* put_nowait on a queue with no maxsize.
PutUnbounded(q, item) == Append(q, item)

\* put_nowait((label, callback)): queue.Full drops the event.
PutNowait(q, item) == IF Len(q) < QueueMaxSize THEN Append(q, item) ELSE q

\* _on_press without the test of _hotkey_active.
PressNoDebounce(n) ==
    LET pk == pressed_keys \cup {n} IN
    IF HotkeyKeys \subseteq pk
    THEN IF mode = "toggle"
         THEN IF ~is_recording
              THEN [pk |-> pk, ha |-> TRUE, rec |-> TRUE, emit |-> <<"start">>]
              ELSE [pk |-> pk, ha |-> TRUE, rec |-> FALSE, emit |-> <<"stop">>]
         ELSE IF ~is_recording
              THEN [pk |-> pk, ha |-> TRUE, rec |-> TRUE, emit |-> <<"start">>]
              ELSE [pk |-> pk, ha |-> TRUE, rec |-> is_recording, emit |-> <<>>]
    ELSE [pk |-> pk, ha |-> hotkey_active, rec |-> is_recording, emit |-> <<>>]

\* _on_press under the lock, from the normalized key: the flags after the
\* event and the labels handed to _enqueue_event.
PressTransition(n) ==
    LET pk == pressed_keys \cup {n} IN
    IF HotkeyKeys \subseteq pk
    THEN IF hotkey_active
         THEN [pk |-> pk, ha |-> hotkey_active, rec |-> is_recording, emit |-> <<>>]
         ELSE IF mode = "toggle"
              THEN IF ~is_recording
                   THEN [pk |-> pk, ha |-> TRUE, rec |-> TRUE, emit |-> <<"start">>]
                   ELSE [pk |-> pk, ha |-> TRUE, rec |-> FALSE, emit |-> <<"stop">>]
              ELSE IF ~is_recording
                   THEN [pk |-> pk, ha |-> TRUE, rec |-> TRUE, emit |-> <<"start">>]
                   ELSE [pk |-> pk, ha |-> TRUE, rec |-> is_recording, emit |-> <<>>]
    ELSE [pk |-> pk, ha |-> hotkey_active, rec |-> is_recording, emit |-> <<>>]

\* _on_release resetting _hotkey_active on the release of any key.
ReleaseAnyKeyResets(n) ==
    LET pk == pressed_keys \ {n}
        rec == is_recording
    IN IF mode = "push-to-talk" /\ rec /\ n \in HotkeyKeys
       THEN [pk |-> pk, ha |-> FALSE, rec |-> FALSE, emit |-> <<"stop">>]
       ELSE [pk |-> pk, ha |-> FALSE, rec |-> rec, emit |-> <<>>]

\* _on_release emitting "stop" without the test of _is_recording.
ReleaseStopsUnchecked(n) ==
    LET pk == pressed_keys \ {n}
        ha == IF n \in HotkeyKeys THEN FALSE ELSE hotkey_active
    IN IF mode = "push-to-talk" /\ n \in HotkeyKeys
       THEN [pk |-> pk, ha |-> ha, rec |-> FALSE, emit |-> <<"stop">>]
       ELSE [pk |-> pk, ha |-> ha, rec |-> is_recording, emit |-> <<>>]

\* _on_release emitting "stop" only once every key of the combination is up.
ReleaseStopsWhenAllUp(n) ==
    LET pk == pressed_keys \ {n}
        ha == IF n \in HotkeyKeys THEN FALSE ELSE hotkey_active
    IN IF mode = "push-to-talk" /\ is_recording /\ pk \cap HotkeyKeys = {}
       THEN [pk |-> pk, ha |-> ha, rec |-> FALSE, emit |-> <<"stop">>]
       ELSE [pk |-> pk, ha |-> ha, rec |-> is_recording, emit |-> <<>>]

\* _on_release under the lock, from the normalized key.
ReleaseTransition(n) ==
    LET pk == pressed_keys \ {n}
        ha == IF n \in HotkeyKeys THEN FALSE ELSE hotkey_active
    IN IF mode = "push-to-talk" /\ is_recording /\ n \in HotkeyKeys
       THEN [pk |-> pk, ha |-> ha, rec |-> FALSE, emit |-> <<"stop">>]
       ELSE [pk |-> pk, ha |-> ha, rec |-> is_recording, emit |-> <<>>]

Held(pk) == HotkeyKeys \subseteq pk

\* The history record of a press or release event.
Event(type, n, r, q) ==
    [type |-> type, key |-> n, offered |-> r.emit,
     accepted |-> SubSeq(q, Len(event_queue) + 1, Len(q)),
     held_before |-> Held(pressed_keys), held_after |-> Held(r.pk),
     rec_before |-> is_recording, room |-> Len(event_queue) < QueueMaxSize]

\* The handlers with put() for put_nowait(): an event waits for room in the
\* queue.
ApplyBlocking(type, n, r) ==
    LET w == IF r.emit = <<>>
             THEN [threads |-> threads, worker_thread |-> worker_thread,
                   worker_stop |-> worker_stop]
             ELSE EnsureWorker
        q == event_queue \o r.emit
    IN /\ r.emit # <<>> => WorkerAvailable /\ Len(event_queue) < QueueMaxSize
       /\ pressed_keys' = r.pk
       /\ hotkey_active' = r.ha
       /\ is_recording' = r.rec
       /\ event_queue' = q
       /\ threads' = w.threads
       /\ worker_thread' = w.worker_thread
       /\ worker_stop' = w.worker_stop
       /\ log' = log \o r.emit
       /\ n_rise' = IF ~Held(pressed_keys) /\ Held(r.pk) THEN n_rise + 1 ELSE n_rise
       /\ ev' = Event(type, n, r, q)
       /\ order' = [order EXCEPT
              !.queue = IF Len(q) > Len(event_queue)
                        THEN Append(@, Len(log) + 1) ELSE @,
              !.live = IF Len(q) > Len(event_queue) /\ listener = "running"
                       THEN @ \union {Len(log) + 1} ELSE @]

\* The flags, the queue and the worker after a transition r of key n.
Apply(type, n, r) ==
    LET w == IF r.emit = <<>>
             THEN [threads |-> threads, worker_thread |-> worker_thread,
                   worker_stop |-> worker_stop]
             ELSE EnsureWorker
        q == IF r.emit = <<>> THEN event_queue ELSE PutNowait(event_queue, r.emit[1])
    IN /\ r.emit # <<>> => WorkerAvailable
       /\ pressed_keys' = r.pk
       /\ hotkey_active' = r.ha
       /\ is_recording' = r.rec
       /\ event_queue' = q
       /\ threads' = w.threads
       /\ worker_thread' = w.worker_thread
       /\ worker_stop' = w.worker_stop
       /\ log' = log \o r.emit
       /\ n_rise' = IF ~Held(pressed_keys) /\ Held(r.pk) THEN n_rise + 1 ELSE n_rise
       /\ ev' = Event(type, n, r, q)
       /\ order' = [order EXCEPT
              !.queue = IF Len(q) > Len(event_queue)
                        THEN Append(@, Len(log) + 1) ELSE @,
              !.live = IF Len(q) > Len(event_queue) /\ listener = "running"
                       THEN @ \union {Len(log) + 1} ELSE @]

\* Room left within the bounds for one more key event.
WithinBounds == n_rise < MaxEmits /\ Len(log) < MaxEmits

\* ---------------------------------------------------- hotkey.py: actions

\* _on_press(key)
OnPress(key) ==
    LET n == NormalizeKey(key) IN
    /\ WithinBounds
    /\ IF n = "None"
       THEN UNCHANGED vars
       ELSE /\ Apply("press", n, PressTransition(n))
            /\ UNCHANGED <<mode, ctor, raised, callVars, daemonVars, regVars>>

\* _on_release(key)
OnRelease(key) ==
    LET n == NormalizeKey(key) IN
    /\ WithinBounds
    /\ IF n = "None"
       THEN UNCHANGED vars
       ELSE /\ Apply("release", n, ReleaseTransition(n))
            /\ UNCHANGED <<mode, ctor, raised, callVars, daemonVars, regVars>>

\* _event_worker: the loop condition, while not self._worker_stop.is_set()
WorkerLoop(t) ==
    /\ threads[t] = "loop"
    /\ threads' = [threads EXCEPT ![t] = IF worker_stop THEN "dead" ELSE "get"]
    /\ UNCHANGED <<mode, pressed_keys, hotkey_active, is_recording, event_queue,
                   worker_thread, worker_stop, log, n_rise, ev, ctor, raised,
                   callVars, order, daemonVars, regVars>>

\* _event_worker: self._event_queue.get(timeout=0.1), queue.Empty goes
\* round the loop and the None item returns; else the item is in hand
WorkerGet(t) ==
    /\ threads[t] = "get"
    /\ IF event_queue = <<>>
       THEN /\ threads' = [threads EXCEPT ![t] = "loop"]
            /\ UNCHANGED <<event_queue, order>>
       ELSE /\ event_queue' = Tail(event_queue)
            /\ threads' = [threads EXCEPT ![t] =
                              IF Head(event_queue) = "None" THEN "dead" ELSE "got"]
            /\ order' = [order EXCEPT !.queue = Tail(@),
                                      !.taken[t] = Head(order.queue)]
    /\ UNCHANGED <<mode, pressed_keys, hotkey_active, is_recording,
                   worker_thread, worker_stop, log, n_rise, ev, ctor, raised,
                   callVars, daemonVars, regVars>>

\* _event_worker: label, callback = item, and callback() is entered
WorkerCall(t) ==
    /\ threads[t] = "got"
    /\ threads' = [threads EXCEPT ![t] = "callback"]
    /\ order' = [order EXCEPT !.called = order.taken[t], !.taken[t] = 0]
    /\ UNCHANGED <<mode, pressed_keys, hotkey_active, is_recording, event_queue,
                   worker_thread, worker_stop, log, n_rise, ev, ctor, raised,
                   callVars, daemonVars, regVars>>

\* _event_worker: the callback returns
WorkerCallbackDone(t) ==
    /\ threads[t] = "callback"
    /\ threads' = [threads EXCEPT ![t] = "loop"]
    /\ UNCHANGED <<mode, pressed_keys, hotkey_active, is_recording, event_queue,
                   worker_thread, worker_stop, log, n_rise, ev, ctor, raised,
                   callVars, order, daemonVars, regVars>>

\* _event_worker: the callback raises an Exception
WorkerCallbackRaises(t) ==
    /\ threads[t] = "callback"
    /\ threads' = [threads EXCEPT ![t] = "except"]
    /\ raised' = TRUE
    /\ UNCHANGED <<mode, pressed_keys, hotkey_active, is_recording, event_queue,
                   worker_thread, worker_stop, log, n_rise, ev, ctor,
                   callVars, order, daemonVars, regVars>>

\* _event_worker with no except clause: the exception ends the thread.
ExceptionEndsWorker(t) ==
    /\ threads[t] = "except"
    /\ threads' = [threads EXCEPT ![t] = "dead"]
    /\ UNCHANGED <<mode, pressed_keys, hotkey_active, is_recording, event_queue,
                   worker_thread, worker_stop, log, n_rise, ev, ctor, raised,
                   callVars, order, daemonVars, regVars>>

\* _event_worker: except Exception logs "Hotkey callback failed" and the
\* loop goes on
WorkerExcept(t) ==
    /\ threads[t] = "except"
    /\ threads' = [threads EXCEPT ![t] = "loop"]
    /\ UNCHANGED <<mode, pressed_keys, hotkey_active, is_recording, event_queue,
                   worker_thread, worker_stop, log, n_rise, ev, ctor, raised,
                   callVars, order, daemonVars, regVars>>

\* ------------------------------------- hotkey.py: start(), stop(), the hook

\* The input-hook thread is in neither handler.
NoHook == [pc |-> "idle", type |-> "none", key |-> "None"]

\* Nothing queued, nothing in a worker's hand, no callback called yet.
NoOrder == [queue |-> <<>>, taken |-> [t \in ThreadIds |-> 0], called |-> 0,
            live |-> {}]

\* The keys the input hook delivers to a started listener.
HookKeys == {"ctrl_l", "shift", "space"}

\* Room left within the bounds for one more event of the input hook.
HookBounds == n_rise < MaxPresses /\ Len(log) < MaxPresses

\* pynput's thread calls _on_press or _on_release: the key is normalized
\* and, unless that gives None, the handler enters "with self._lock"
HookEnter(type, key) ==
    LET n == NormalizeKey(key) IN
    /\ listener = "running"
    /\ hook.pc = "idle"
    /\ HookBounds
    /\ hook' = IF n = "None" THEN hook
               ELSE [pc |-> "locked", type |-> type, key |-> n]
    /\ UNCHANGED <<mode, pressed_keys, hotkey_active, is_recording, event_queue,
                   worker_thread, worker_stop, threads, log, n_rise, ev, ctor,
                   raised, listener, caller, order, daemonVars, regVars>>

\* _on_press or _on_release: the block under the lock, and the lock's release
HookBody ==
    /\ hook.pc = "locked"
    /\ Apply(hook.type, hook.key,
             IF hook.type = "press" THEN PressTransition(hook.key)
             ELSE ReleaseTransition(hook.key))
    /\ hook' = NoHook
    /\ UNCHANGED <<mode, ctor, raised, listener, caller, daemonVars, regVars>>

\* start(): a listener that is there already returns True
CallStart ==
    /\ caller.pc = "idle"
    /\ caller.calls < MaxCalls
    /\ caller' = [pc |-> IF listener # "none" THEN "idle" ELSE "start_listener",
                  calls |-> caller.calls + 1]
    /\ UNCHANGED <<mode, pressed_keys, hotkey_active, is_recording, event_queue,
                   worker_thread, worker_stop, threads, log, n_rise, ev, ctor,
                   raised, listener, hook, order, daemonVars, regVars>>

\* start(): self._listener = keyboard.Listener(...) and self._listener.start();
\* the constructor may raise, which returns False, and the thread may come
\* up ("running") or not ("dead")
StartListener(outcome) ==
    /\ caller.pc = "start_listener"
    /\ listener' = outcome
    /\ caller' = [caller EXCEPT
           !.pc = IF outcome = "none" THEN "idle" ELSE "start_worker"]
    /\ UNCHANGED <<mode, pressed_keys, hotkey_active, is_recording, event_queue,
                   worker_thread, worker_stop, threads, log, n_rise, ev, ctor,
                   raised, hook, order, daemonVars, regVars>>

\* start(): self._ensure_worker(), then a listener that is not alive makes
\* start() call self.stop() and return False
StartWorker ==
    /\ caller.pc = "start_worker"
    /\ WorkerAvailable
    /\ threads' = EnsureWorker.threads
    /\ worker_thread' = EnsureWorker.worker_thread
    /\ worker_stop' = EnsureWorker.worker_stop
    /\ caller' = [caller EXCEPT
           !.pc = IF listener = "running" THEN "idle" ELSE "stop_listener"]
    /\ UNCHANGED <<mode, pressed_keys, hotkey_active, is_recording, event_queue,
                   log, n_rise, ev, ctor, raised, listener, hook, order,
                   daemonVars, regVars>>

\* stop() is called.
CallStop ==
    /\ caller.pc = "idle"
    /\ caller.calls < MaxCalls
    /\ caller' = [pc |-> "stop_listener", calls |-> caller.calls + 1]
    /\ UNCHANGED <<mode, pressed_keys, hotkey_active, is_recording, event_queue,
                   worker_thread, worker_stop, threads, log, n_rise, ev, ctor,
                   raised, listener, hook, order, daemonVars, regVars>>

\* stop(): if self._listener is not None: the listener is stopped and
\* dropped, self._pressed_keys.clear(), self._is_recording = False
StopListener ==
    /\ caller.pc = "stop_listener"
    /\ caller' = [caller EXCEPT !.pc = "stop_set"]
    /\ IF listener # "none"
       THEN /\ listener' = "none"
            /\ pressed_keys' = {}
            /\ is_recording' = FALSE
       ELSE UNCHANGED <<listener, pressed_keys, is_recording>>
    /\ UNCHANGED <<mode, hotkey_active, event_queue, worker_thread, worker_stop,
                   threads, log, n_rise, ev, ctor, raised, hook, order,
                   daemonVars, regVars>>

\* stop(): self._worker_stop.set()
StopSet ==
    /\ caller.pc = "stop_set"
    /\ caller' = [caller EXCEPT !.pc = "stop_put"]
    /\ worker_stop' = TRUE
    /\ UNCHANGED <<mode, pressed_keys, hotkey_active, is_recording, event_queue,
                   worker_thread, threads, log, n_rise, ev, ctor, raised,
                   listener, hook, order, daemonVars, regVars>>

\* stop(): self._event_queue.put_nowait(None), queue.Full is passed over;
\* with no worker thread stop() returns
StopPut ==
    /\ caller.pc = "stop_put"
    /\ caller' = [caller EXCEPT
           !.pc = IF worker_thread # 0 THEN "stop_join" ELSE "idle"]
    /\ event_queue' = PutNowait(event_queue, "None")
    /\ order' = [order EXCEPT !.queue = IF Len(event_queue) < QueueMaxSize
                                        THEN Append(@, 0) ELSE @]
    /\ UNCHANGED <<mode, pressed_keys, hotkey_active, is_recording,
                   worker_thread, worker_stop, threads, log, n_rise, ev, ctor,
                   raised, listener, hook, daemonVars, regVars>>

\* stop(): self._worker_thread.join(timeout=1.0) returns because the worker
\* has ended, or because a second has passed with the worker in a callback;
\* "Hotkey worker did not exit cleanly"; self._worker_thread = None
StopJoin ==
    /\ caller.pc = "stop_join"
    /\ ~IsAlive(worker_thread) \/ threads[worker_thread] = "callback"
    /\ caller' = [caller EXCEPT !.pc = "idle"]
    /\ worker_thread' = 0
    /\ UNCHANGED <<mode, pressed_keys, hotkey_active, is_recording, event_queue,
                   worker_stop, threads, log, n_rise, ev, ctor, raised,
                   listener, hook, order, daemonVars, regVars>>

\* The parts of a hotkey string: an empty part, names with and without
\* angle brackets, an alias in mixed case, a character, and two names pynput
\* does not know.
Tokens == {"", "ctrl", "Control", "<shift>", "space", "a", "unknownkey", "<bogus>"}

\* The parts that name no key.
UnknownTokens == {"unknownkey", "<bogus>"}

\* Hotkey strings as their parts between "+" signs, and the string " ".
HotkeyStrings ==
    {<<" ">>} \union UNION {[1..n -> Tokens] : n \in 1..MaxParts}

\* not hotkey_str.strip()
IsBlank(h) == Len(h) = 1 /\ h[1] \in {"", " "}

\* _normalize_hotkey_string, one part: lowered, looked up in key_map
NormalizePart(part) ==
    CASE part \in {"ctrl", "Control"} -> "<ctrl>"
      [] part = "space" -> "<space>"
      [] OTHER -> part

\* _normalize_hotkey_string: the non-empty parts normalized, or the string
\* itself when it has none
NormalizeHotkeyString(h) ==
    LET parts == SelectSeq(h, LAMBDA x : x \notin {"", " "}) IN
    IF parts = <<>> THEN h ELSE [i \in 1..Len(parts) |-> NormalizePart(parts[i])]

\* keyboard.HotKey.parse, one part: a single character or a known <name>;
\* "error" is ValueError
ParsePart(part) ==
    CASE part = "a" -> "char_a"
      [] part = "<ctrl>" -> "ctrl"
      [] part = "<shift>" -> "shift"
      [] part = "<space>" -> "space"
      [] OTHER -> "error"

\* keyboard.HotKey.parse: the keys, or ValueError for a part it cannot
\* parse, for a repeated key, and for a string that ends in "+"; a string
\* that is "+" alone is the key "+"
HotKeyParse(n) ==
    IF \A i \in 1..Len(n) : n[i] = ""
    THEN IF Len(n) = 2 THEN [ok |-> TRUE, keys |-> {"char_plus"}]
         ELSE [ok |-> FALSE, keys |-> {}]
    ELSE LET keys == {ParsePart(n[i]) : i \in 1..Len(n)} IN
         IF "error" \in keys \/ Cardinality(keys) # Len(n)
         THEN [ok |-> FALSE, keys |-> {}]
         ELSE [ok |-> TRUE, keys |-> keys]

\* _parse_hotkey accepting whatever parts pynput can parse and dropping the
\* others.
ParseLenient(h) ==
    LET keys == {ParsePart(NormalizePart(h[i])) : i \in 1..Len(h)} \ {"error"} IN
    [ok |-> TRUE, keys |-> keys]

\* _parse_hotkey: the set of normalized keys, or HotkeyError
ParseHotkey(h) ==
    IF IsBlank(h) THEN [ok |-> FALSE, keys |-> {}]
    ELSE LET r == HotKeyParse(NormalizeHotkeyString(h)) IN
         IF ~r.ok THEN r
         ELSE [ok |-> TRUE, keys |-> {NormalizeKey(k) : k \in r.keys} \ {"None"}]

\* The listener the tests build: HotkeyListener(hotkey="ctrl+shift+space").
Built == [pc |-> "built", hotkey |-> <<"ctrl", "<shift>", "space">>,
          keys |-> HotkeyKeys]

\* HotkeyListener.__init__ from the parsing on: HotkeyError from
\* _parse_hotkey or for an empty key set, else self._hotkey_keys is set
ListenerInit ==
    /\ ctor.pc = "called"
    /\ LET r == ParseHotkey(ctor.hotkey) IN
       ctor' = [ctor EXCEPT !.pc = IF r.ok /\ r.keys # {} THEN "built" ELSE "raised",
                            !.keys = IF r.ok THEN r.keys ELSE {}]
    /\ UNCHANGED <<mode, pressed_keys, hotkey_active, is_recording, event_queue,
                   worker_thread, worker_stop, threads, log, n_rise, ev, raised,
                   callVars, order, daemonVars, regVars>>

NoEvent ==
    [type |-> "none", key |-> "None", offered |-> <<>>, accepted |-> <<>>,
     held_before |-> FALSE, held_after |-> FALSE, rec_before |-> FALSE,
     room |-> TRUE]

\* HotkeyListener.__init__, the fields set before the hotkey is parsed
FreshListener ==
    /\ mode \in Modes
    /\ pressed_keys = {}
    /\ hotkey_active = FALSE
    /\ is_recording = FALSE
    /\ event_queue = <<>>
    /\ worker_thread = 0
    /\ worker_stop = FALSE
    /\ threads = [t \in ThreadIds |-> "unborn"]
    /\ log = <<>>
    /\ n_rise = 0
    /\ ev = NoEvent
    /\ raised = FALSE
    /\ listener = "none"
    /\ hook = NoHook
    /\ caller = [pc |-> "idle", calls |-> 0]
    /\ order = NoOrder

\* HotkeyListener.__init__
HotkeyInit == FreshListener /\ ctor = Built

\* -------------------------------------------------- daemon.py: helpers

\* Process ids of the process table.
NumPids == 2

\* for _ in range(50) in stop_daemon
StopPolls == 50

\* for _ in range(30) in _spawn_background
SpawnPolls == 30

Pids == 1..NumPids

Missing == [kind |-> "missing", pid |-> 0]

\* json.dumps(data) of _write_pid_file, as far as the readers use it
Entry(pid) == [kind |-> "json", pid |-> pid]

\* What the registry file can hold when a process comes to it: nothing, a
\* file that cannot be read, blank text, text that is not JSON, a JSON list,
\* a JSON object without "pid", and, for a number n, the object
\* _write_pid_file makes ("json"), an object whose "pid" is the string of
\* n's digits ("json_str"), an object whose "pid" is the float n + 0.5
\* ("json_float"), and the bare digits of n ("bare").
FileContents ==
    {Missing} \union
    {[kind |-> k, pid |-> 0] :
        k \in {"unreadable", "empty", "garbage", "json_list", "json_nopid"}} \union
    {[kind |-> k, pid |-> n] :
        k \in {"json", "json_str", "json_float", "bare"}, n \in Pids}

\* A prefix of json.dumps(data), cut before the closing brace.
Partial(pid) == [kind |-> "partial", pid |-> pid]

\* A number as a count of halves, so that n + 0.5 can be told from n.
Halves(content) == IF content.kind = "json_float" THEN 2 * content.pid + 1
                   ELSE 2 * content.pid

\* json.loads(raw): the value, with the "pid" member of an object
JsonLoads(content) ==
    CASE content.kind = "json" ->
             [t |-> "object", pid |-> [t |-> "int", v |-> Halves(content)]]
      [] content.kind = "json_float" ->
             [t |-> "object", pid |-> [t |-> "float", v |-> Halves(content)]]
      [] content.kind = "json_str" ->
             [t |-> "object", pid |-> [t |-> "str", v |-> Halves(content)]]
      [] content.kind = "json_nopid" ->
             [t |-> "object", pid |-> [t |-> "str", v |-> -1]]
      [] content.kind = "json_list" -> [t |-> "list"]
      [] content.kind = "bare" -> [t |-> "int", v |-> Halves(content)]
      [] OTHER -> [t |-> "error"]

\* int(x) of a JSON number or string: truncation for a float, the digits
\* for a string, ValueError for the empty string of data.get("pid", "")
IntOf(x) ==
    CASE x.t \in {"int", "float"} -> [ok |-> TRUE, v |-> x.v \div 2]
      [] x.t = "str" /\ x.v >= 0 -> [ok |-> TRUE, v |-> x.v \div 2]
      [] OTHER -> [ok |-> FALSE, v |-> 0]

\* _read_pid_file reading only the legacy bare pid.
ParseBareOnly(content) ==
    IF content.kind = "bare" THEN [some |-> TRUE, pid |-> content.pid]
    ELSE [some |-> FALSE, pid |-> 0]

\* _read_pid_file from the text it read: the record, or None
ParsePidFile(content) ==
    IF content.kind \in {"missing", "unreadable", "empty"}
    THEN [some |-> FALSE, pid |-> 0]
    ELSE LET data == JsonLoads(content)
             pid == IF data.t = "object" THEN IntOf(data.pid)
                    ELSE [ok |-> FALSE, v |-> 0]
         IN IF pid.ok THEN [some |-> TRUE, pid |-> pid.v]
            ELSE IF content.kind = "bare"
                 THEN [some |-> TRUE, pid |-> IntOf(data).v]
                 ELSE [some |-> FALSE, pid |-> 0]

\* _read_pid_file: the record, or None
ReadPidFile == ParsePidFile(pid_file)

\* A free slot of the process table.
NoProc == [kind |-> "none", pc |-> "none", bg |-> FALSE, data |-> 0, polls |-> 0,
           outcome |-> "none"]

\* The kinds of process: "stt" runs this program; "foreign" is another
\* program; "opaque" is another program whose command line cannot be read;
\* "denied" is another user's program, which this user may not signal.
ForeignKinds == {"foreign", "opaque", "denied"}

\* Two more kinds of another user's process: "hidden", which this user may
\* neither signal nor inspect, and "protected", a process of a Windows system
\* that this user may not open.
GuardedKinds == {"hidden", "protected"}

\* The command line of a process of each kind, as /proc, ps, wmic or
\* PowerShell gives it.
CommandOf(kind) ==
    CASE kind = "stt" -> "python -m claude_stt.daemon run"
      [] kind \in {"opaque", "hidden", "protected"} -> "None"
      [] OTHER -> "vim notes.txt"

\* "claude-stt" in command
HasDashToken(command) == command \in {"claude-stt start"}

\* "claude_stt" in command
HasUnderscoreToken(command) == command \in {"python -m claude_stt.daemon run"}

\* The kind of the process that has the pid, "none" if there is none.
KindOf(pid) == IF pid \in Pids THEN procs[pid].kind ELSE "none"

\* _pid_exists: os.kill(pid, 0), where PermissionError counts as existing;
\* on Windows _windows_pid_exists, where OpenProcess giving no handle, as for
\* a process that may not be opened, counts as not existing
PidExists(pid) ==
    IF pid <= 0 THEN FALSE ELSE KindOf(pid) \notin {"none", "protected"}

\* _get_process_command: the command line, or "None"
GetProcessCommand(pid) ==
    IF KindOf(pid) = "none" THEN "None" ELSE CommandOf(KindOf(pid))

\* _pid_looks_like_claude_stt answering True for every pid.
LooksLikeAnything(pid) == TRUE

\* _pid_looks_like_claude_stt
PidLooksLikeClaudeStt(pid) ==
    LET command == GetProcessCommand(pid) IN
    IF command = "None" THEN FALSE
    ELSE HasDashToken(command) \/ HasUnderscoreToken(command)

\* is_daemon_running looking for the token "claude-stt" alone.
RunningDashOnly(pid) ==
    IF pid <= 0 \/ ~PidExists(pid) THEN [running |-> FALSE, unlink |-> TRUE]
    ELSE LET command == GetProcessCommand(pid) IN
         IF command = "None" THEN [running |-> TRUE, unlink |-> FALSE]
         ELSE IF ~HasDashToken(command)
              THEN [running |-> FALSE, unlink |-> TRUE]
              ELSE [running |-> TRUE, unlink |-> FALSE]

\* is_daemon_running after _read_pid_file gave pid: the answer, and whether
\* the registry file is unlinked.
IsDaemonRunning(pid) ==
    IF pid <= 0 THEN [running |-> FALSE, unlink |-> TRUE]
    ELSE IF ~PidExists(pid) THEN [running |-> FALSE, unlink |-> TRUE]
    ELSE LET command == GetProcessCommand(pid) IN
         IF command = "None" THEN [running |-> TRUE, unlink |-> FALSE]
         ELSE IF ~HasDashToken(command) /\ ~HasUnderscoreToken(command)
              THEN [running |-> FALSE, unlink |-> TRUE]
              ELSE [running |-> TRUE, unlink |-> FALSE]

\* A daemon of this program that is up: registered, not yet cleaning up.
LiveDaemon(pid) ==
    KindOf(pid) = "stt" /\ procs[pid].pc \in {"construct", "main_loop"}

\* ---------------------------------------------------- daemon.py: start

\* A user runs "start" or "start --background" as process p.
InvokeStart(p, background) ==
    /\ procs[p].kind = "none"
    /\ procs' = [procs EXCEPT ![p] = [NoProc EXCEPT !.kind = "stt",
                                             !.pc = "start_read", !.bg = background]]
    /\ UNCHANGED <<hotkeyVars, regVars, pid_file, client>>

\* start_daemon after is_daemon_running() returned False
AfterCheck(p) == IF procs[p].bg THEN "spawn" ELSE "write"

\* The position after a poll of _spawn_background that found no daemon.
AfterPoll(p) == IF procs[p].polls + 1 >= SpawnPolls THEN "write" ELSE "poll_read"

\* start_daemon: is_daemon_running(), data = _read_pid_file()
StartRead(p) ==
    /\ procs[p].pc = "start_read"
    /\ LET d == ReadPidFile IN
       procs' = [procs EXCEPT ![p].pc = IF d.some THEN "start_probe" ELSE AfterCheck(p),
                              ![p].data = d.pid]
    /\ UNCHANGED <<hotkeyVars, regVars, pid_file, client>>

\* start_daemon: is_daemon_running(), the probes of the pid that was read;
\* "Daemon is already running." returns
StartProbe(p) ==
    /\ procs[p].pc = "start_probe"
    /\ LET r == IsDaemonRunning(procs[p].data) IN
       /\ pid_file' = IF r.unlink THEN Missing ELSE pid_file
       /\ procs' = [procs EXCEPT
              ![p].pc = IF r.running THEN "done" ELSE AfterCheck(p),
              ![p].data = 0,
              ![p].outcome = IF r.running THEN "already_running" ELSE @]
    /\ UNCHANGED <<hotkeyVars, regVars, client>>

\* _spawn_background: subprocess.Popen starts the child as process c
Spawn(p, c) ==
    /\ procs[p].pc = "spawn"
    /\ procs[c].kind = "none"
    /\ procs' = [procs EXCEPT ![p].pc = "poll_read", ![p].polls = 0,
                              ![c] = [NoProc EXCEPT !.kind = "stt", !.pc = "start_read"]]
    /\ UNCHANGED <<hotkeyVars, regVars, pid_file, client>>

\* _spawn_background: Popen raises; start_daemon goes on in the foreground
SpawnFails(p) ==
    /\ procs[p].pc = "spawn"
    /\ procs' = [procs EXCEPT ![p].pc = "write", ![p].bg = FALSE]
    /\ UNCHANGED <<hotkeyVars, regVars, pid_file, client>>

\* _spawn_background: is_daemon_running() of one poll, the read
PollRead(p) ==
    /\ procs[p].pc = "poll_read"
    /\ LET d == ReadPidFile
           to == IF d.some THEN "poll_probe" ELSE AfterPoll(p)
       IN procs' = [procs EXCEPT ![p].pc = to,
                                 ![p].data = d.pid,
                                 ![p].polls = IF to = "poll_read" THEN @ + 1 ELSE 0,
                                 ![p].bg = to # "write"]
    /\ UNCHANGED <<hotkeyVars, regVars, pid_file, client>>

\* _spawn_background: is_daemon_running() of one poll, the probes
PollProbe(p) ==
    /\ procs[p].pc = "poll_probe"
    /\ LET r == IsDaemonRunning(procs[p].data)
           to == IF r.running THEN "done" ELSE AfterPoll(p)
       IN /\ pid_file' = IF r.unlink THEN Missing ELSE pid_file
          /\ procs' = [procs EXCEPT
                 ![p].pc = to,
                 ![p].data = 0,
                 ![p].outcome = IF r.running THEN "spawned" ELSE @,
                 ![p].polls = IF to = "poll_read" THEN @ + 1 ELSE 0,
                 ![p].bg = to # "write"]
    /\ UNCHANGED <<hotkeyVars, regVars, client>>

\* start_daemon: _write_pid_file(os.getpid())
WritePid(p) ==
    /\ procs[p].pc = "write"
    /\ pid_file' = Entry(p)
    /\ procs' = [procs EXCEPT ![p].pc = "construct"]
    /\ UNCHANGED <<hotkeyVars, regVars, client>>

\* start_daemon: daemon = STTDaemon(), then daemon.run() is entered
Construct(p) ==
    /\ procs[p].pc = "construct"
    /\ procs' = [procs EXCEPT ![p].pc = "main_loop"]
    /\ UNCHANGED <<hotkeyVars, regVars, pid_file, client>>

\* start_daemon: STTDaemon() raises, the finally clause is next
ConstructFails(p) ==
    /\ procs[p].pc = "construct"
    /\ procs' = [procs EXCEPT ![p].pc = "cleanup"]
    /\ UNCHANGED <<hotkeyVars, regVars, pid_file, client>>

\* start_daemon: daemon.run() returns (a terminate request) or raises
LeaveLoop(p) ==
    /\ procs[p].pc = "main_loop"
    /\ procs' = [procs EXCEPT ![p].pc = "cleanup"]
    /\ UNCHANGED <<hotkeyVars, regVars, pid_file, client>>

\* start_daemon returning without the unlink of its finally clause.
CleanupKeepsEntry(p) ==
    /\ procs[p].pc = "cleanup"
    /\ procs' = [procs EXCEPT ![p].pc = "done", ![p].outcome = "ran"]
    /\ UNCHANGED <<hotkeyVars, regVars, pid_file, client>>

\* start_daemon: finally: get_pid_file().unlink(missing_ok=True)
Cleanup(p) ==
    /\ procs[p].pc = "cleanup"
    /\ pid_file' = Missing
    /\ procs' = [procs EXCEPT ![p].pc = "done", ![p].outcome = "ran"]
    /\ UNCHANGED <<hotkeyVars, regVars, client>>

\* The process of a finished invocation exits.
Exit(p) ==
    /\ procs[p].pc = "done"
    /\ procs' = [procs EXCEPT ![p] = NoProc]
    /\ UNCHANGED <<hotkeyVars, regVars, pid_file, client>>

\* start_daemon(background=False) up to daemon.run(), with no other
\* invocation in between: is_daemon_running() finds no daemon,
\* _write_pid_file(os.getpid()), STTDaemon(), the main loop is entered
StartForeground(p) ==
    /\ procs[p].kind = "none"
    /\ LET d == ReadPidFile IN
       d.some => ~IsDaemonRunning(d.pid).running
    /\ pid_file' = Entry(p)
    /\ procs' = [procs EXCEPT ![p] = [NoProc EXCEPT !.kind = "stt", !.pc = "main_loop"]]
    /\ UNCHANGED <<hotkeyVars, regVars, client>>

\* ------------------------------------------------- the rest of the system

\* A process dies without running any handler (SIGKILL, a crash of the
\* interpreter, the exit of a foreign program).
Dies(p) ==
    /\ procs[p].kind # "none"
    /\ procs' = [procs EXCEPT ![p] = NoProc]
    /\ UNCHANGED <<hotkeyVars, regVars, pid_file, client>>

\* Another program starts under a free pid.
ForeignStarts(p, kind) ==
    /\ procs[p].kind = "none"
    /\ procs' = [procs EXCEPT ![p] = [NoProc EXCEPT !.kind = kind]]
    /\ UNCHANGED <<hotkeyVars, regVars, pid_file, client>>

\* ------------------------------------------- daemon.py: stop and toggle

\* The invocation of stop or toggle: its position, the pid it read, the
\* polls it made, and (history) the signals it sent with the kind of process
\* each reached, whether a poll saw the process gone, whether the hard
\* terminate was issued, whether it unlinked the registry file, how it
\* ended, whether stop found at the pid a process whose command line it
\* could read and which lacks the token, and whether the pid it read had no
\* process all along.
Idle == [pc |-> "idle", op |-> "none", pid |-> 0, polls |-> 0, sent |-> {},
         gone |-> FALSE, force |-> "none", unlinked |-> FALSE, outcome |-> "none",
         foreign |-> FALSE, stale |-> FALSE]

\* os.kill(pid, sig) by this user: delivered, to a process group (pid <= 0),
\* PermissionError, or another OSError; on Windows taskkill, which fails
\* without raising
KillResult(pid) ==
    IF pid <= 0 THEN "group"
    ELSE IF KindOf(pid) \in {"none", "protected"} THEN "no_process"
    ELSE IF KindOf(pid) \in {"denied", "hidden"} THEN "permission"
    ELSE "ok"

\* The registry entry is stale as long as no process has the pid read.
StillStale(pid) == client.stale /\ ~PidExists(pid)

\* A user runs "stop".
InvokeStop ==
    /\ client.pc \in {"idle", "returned"}
    /\ client' = [Idle EXCEPT !.pc = "stop_read", !.op = "stop"]
    /\ UNCHANGED <<hotkeyVars, regVars, pid_file, procs>>

\* stop_daemon: data = _read_pid_file(); "Daemon is not running." returns
StopRead ==
    /\ client.pc = "stop_read"
    /\ LET d == ReadPidFile IN
       client' = IF d.some
                 THEN [client EXCEPT !.pc = "stop_inspect", !.pid = d.pid,
                                     !.stale = ~PidExists(d.pid)]
                 ELSE [client EXCEPT !.pc = "returned", !.outcome = "not_running"]
    /\ UNCHANGED <<hotkeyVars, regVars, pid_file, procs>>

\* stop_daemon: command = _get_process_command(pid); command is not None
StopInspect ==
    /\ client.pc = "stop_inspect"
    /\ client' = [client EXCEPT
           !.pc = IF GetProcessCommand(client.pid) # "None" THEN "stop_looks"
                  ELSE "stop_term",
           !.stale = StillStale(client.pid)]
    /\ UNCHANGED <<hotkeyVars, regVars, pid_file, procs>>

\* stop_daemon: not _pid_looks_like_claude_stt(pid); "refusing to kill"
\* unlinks the registry file and returns
StopLooks ==
    /\ client.pc = "stop_looks"
    /\ LET refuse == ~PidLooksLikeClaudeStt(client.pid) IN
       /\ pid_file' = IF refuse THEN Missing ELSE pid_file
       /\ client' = [client EXCEPT
              !.pc = IF refuse THEN "returned" ELSE "stop_term",
              !.foreign = KindOf(client.pid) \in {"foreign", "denied"},
              !.unlinked = refuse,
              !.outcome = IF refuse THEN "refused" ELSE @,
              !.stale = StillStale(client.pid)]
    /\ UNCHANGED <<hotkeyVars, regVars, procs>>

\* stop_daemon going on to the wait loop after a PermissionError.
PollAfterDenied(r) == IF r = "no_process" THEN "returned" ELSE "stop_poll"

\* stop_daemon going to _force_kill right after the soft terminate.
EscalateAtOnce(r) == IF r \in {"ok", "group"} THEN "stop_force" ELSE "returned"

\* stop_daemon: the position after _terminate_process(pid)
AfterTerminate(r) == IF r \in {"ok", "group"} THEN "stop_poll" ELSE "returned"

\* stop_daemon: _terminate_process(pid); False gives "leaving PID file
\* intact" and PermissionError gives "Permission denied", both return.
\* os.kill(0, SIGTERM) signals the process group of the caller, which ends
\* this invocation too; os.kill(-1, SIGTERM) signals every process the user
\* may signal but the caller
StopTerm ==
    /\ client.pc = "stop_term"
    /\ LET r == KillResult(client.pid) IN
       client' = [client EXCEPT
           !.pc = IF r = "group" /\ client.pid = 0 THEN "returned"
                  ELSE AfterTerminate(r),
           !.sent = IF r \in {"ok", "group"}
                    THEN @ \union {<<"TERM", KindOf(client.pid)>>} ELSE @,
           !.outcome = CASE r = "permission" -> "denied"
                         [] r = "no_process" -> "signal_failed"
                         [] r = "group" /\ client.pid = 0 -> "killed"
                         [] OTHER -> @,
           !.stale = StillStale(client.pid)]
    /\ UNCHANGED <<hotkeyVars, regVars, pid_file, procs>>

\* stop_daemon's wait loop without the else clause.
ForceSkipped(polls) == IF polls + 1 >= StopPolls THEN "stop_unlink" ELSE "stop_poll"

\* stop_daemon's wait loop with no limit on its polls.
PollForever(polls) == "stop_poll"

\* stop_daemon: the position after a poll that found the process
AfterStopPoll(polls) == IF polls + 1 >= StopPolls THEN "stop_force" ELSE "stop_poll"

\* stop_daemon: one round of the wait loop, time.sleep(0.1) and
\* _pid_exists(pid); "Daemon stopped." breaks
StopPoll ==
    /\ client.pc = "stop_poll"
    /\ client' = IF ~PidExists(client.pid)
                 THEN [client EXCEPT !.pc = "stop_unlink", !.gone = TRUE, !.polls = 0]
                 ELSE [client EXCEPT !.pc = AfterStopPoll(client.polls),
                                     !.polls = @ + 1, !.stale = FALSE]
    /\ UNCHANGED <<hotkeyVars, regVars, pid_file, procs>>

\* stop_daemon: the else clause of the wait loop, _force_kill(pid)
StopForce ==
    /\ client.pc = "stop_force"
    /\ LET r == KillResult(client.pid) IN
       /\ client' = [client EXCEPT
              !.pc = "stop_unlink",
              !.sent = IF r \in {"ok", "group"}
                       THEN @ \union {<<"KILL", KindOf(client.pid)>>} ELSE @,
              !.force = IF r \in {"ok", "group"} THEN "sent" ELSE "failed"]
       /\ procs' = IF r = "ok" THEN [procs EXCEPT ![client.pid] = NoProc] ELSE procs
    /\ UNCHANGED <<hotkeyVars, regVars, pid_file>>

\* stop_daemon: the else clause of the try, pid_file.unlink(missing_ok=True)
StopUnlink ==
    /\ client.pc = "stop_unlink"
    /\ pid_file' = Missing
    /\ client' = [client EXCEPT !.pc = "returned", !.unlinked = TRUE,
                                !.outcome = "stopped"]
    /\ UNCHANGED <<hotkeyVars, regVars, procs>>

\* A user runs "toggle".
InvokeToggle ==
    /\ client.pc \in {"idle", "returned"}
    /\ client' = [Idle EXCEPT !.pc = "toggle_read", !.op = "toggle"]
    /\ UNCHANGED <<hotkeyVars, regVars, pid_file, procs>>

\* toggle_recording: data = _read_pid_file(); "Daemon is not running."
\* returns False
ToggleRead ==
    /\ client.pc = "toggle_read"
    /\ LET d == ReadPidFile IN
       client' = IF d.some
                 THEN [client EXCEPT !.pc = "toggle_probe", !.pid = d.pid,
                                     !.stale = ~PidExists(d.pid)]
                 ELSE [client EXCEPT !.pc = "returned", !.outcome = "not_running"]
    /\ UNCHANGED <<hotkeyVars, regVars, pid_file, procs>>

\* toggle_recording: not _pid_exists(pid) returns False
ToggleProbe ==
    /\ client.pc = "toggle_probe"
    /\ client' = [client EXCEPT
           !.pc = IF PidExists(client.pid) THEN "toggle_send" ELSE "returned",
           !.outcome = IF PidExists(client.pid) THEN @ ELSE "not_running",
           !.stale = StillStale(client.pid)]
    /\ UNCHANGED <<hotkeyVars, regVars, pid_file, procs>>

\* toggle_recording: os.kill(pid, signal.SIGUSR1) returns True;
\* PermissionError and OSError return False
ToggleSend ==
    /\ client.pc = "toggle_send"
    /\ LET r == KillResult(client.pid) IN
       client' = [client EXCEPT
           !.pc = "returned",
           !.sent = IF r \in {"ok", "group"}
                    THEN @ \union {<<"USR1", KindOf(client.pid)>>} ELSE @,
           !.outcome = CASE r = "permission" -> "denied"
                         [] r = "no_process" -> "send_failed"
                         [] OTHER -> "toggled",
           !.stale = StillStale(client.pid)]
    /\ UNCHANGED <<hotkeyVars, regVars, pid_file, procs>>

\* A user runs "status".
InvokeStatus ==
    /\ client.pc \in {"idle", "returned"}
    /\ client' = [Idle EXCEPT !.pc = "status_read", !.op = "status"]
    /\ UNCHANGED <<hotkeyVars, regVars, pid_file, procs>>

\* daemon_status: is_daemon_running(), data = _read_pid_file(); no record
\* gives "Daemon is not running."
StatusRead ==
    /\ client.pc = "status_read"
    /\ LET d == ReadPidFile IN
       client' = IF d.some
                 THEN [client EXCEPT !.pc = "status_probe", !.pid = d.pid,
                                     !.stale = ~PidExists(d.pid)]
                 ELSE [client EXCEPT !.pc = "returned", !.outcome = "not_running"]
    /\ UNCHANGED <<hotkeyVars, regVars, pid_file, procs>>

\* daemon_status: is_daemon_running(), the probes of the pid that was read,
\* then "Daemon is running (PID ...)" or "Daemon is not running."
StatusProbe ==
    /\ client.pc = "status_probe"
    /\ LET r == IsDaemonRunning(client.pid) IN
       /\ pid_file' = IF r.unlink THEN Missing ELSE pid_file
       /\ client' = [client EXCEPT
              !.pc = "returned",
              !.unlinked = r.unlink,
              !.outcome = IF r.running THEN "running" ELSE "not_running",
              !.stale = StillStale(client.pid)]
    /\ UNCHANGED <<hotkeyVars, regVars, procs>>

\* ------------------------------------------------------ daemon.py: main

\* The choices of the command argument.
Commands == {"start", "stop", "status", "run", "toggle"}

\* What toggle_recording returns, from how the invocation ended.
ToggleResult(outcome) == outcome = "toggled"

\* main returning 0 whatever the command did.
MainAlwaysZero(command, result) == 0

\* main: the exit code after the command's function returned result
MainReturn(command, result) ==
    IF command = "toggle" /\ ~result THEN 1 ELSE 0

\* The exit code of the invocation of stop or toggle that has returned.
ExitCode == MainReturn(client.op, ToggleResult(client.outcome))

\* ------------------------------- daemon.py: the registry file, in detail

\* No temporary file.
NoTemp == [kind |-> "none", pid |-> 0]

\* No call of _read_pid_file yet.
NoRead == [pc |-> "idle", raw |-> Missing, result |-> [some |-> FALSE, pid |-> 0],
           after |-> 0]

\* A process calls _read_pid_file.
ReadCall ==
    /\ reader.pc \in {"idle", "done"}
    /\ reader' = [NoRead EXCEPT !.pc = "exists"]
    /\ UNCHANGED <<hotkeyVars, daemonVars, temp, written>>

\* _read_pid_file: if not pid_file.exists(): return None
ReadExists ==
    /\ reader.pc = "exists"
    /\ reader' = [reader EXCEPT
           !.pc = IF pid_file.kind = "missing" THEN "done" ELSE "read_text"]
    /\ UNCHANGED <<hotkeyVars, daemonVars, temp, written>>

\* _read_pid_file: pid_file.read_text(...) and the parsing of what it gave;
\* a file unlinked since exists() makes read_text raise, which gives None
ReadText ==
    /\ reader.pc = "read_text"
    /\ reader' = [reader EXCEPT !.pc = "done", !.raw = pid_file,
                                !.result = ParsePidFile(pid_file),
                                !.after = written.last]
    /\ UNCHANGED <<hotkeyVars, daemonVars, temp, written>>

\* _write_pid_file(os.getpid()) by process p: tempfile.NamedTemporaryFile
\* creates the temporary file
TempCreate(p) ==
    /\ temp[p] = NoTemp
    /\ temp' = [temp EXCEPT ![p] = [kind |-> "empty", pid |-> 0]]
    /\ UNCHANGED <<hotkeyVars, daemonVars, reader, written>>

\* _write_pid_file: handle.write(json.dumps(data)) and the close of the
\* with block; the text reaches the temporary file in one piece or in two
TempWrite(p) ==
    /\ temp[p].kind \in {"empty", "partial"}
    /\ \E c \in IF temp[p].kind = "empty" THEN {Partial(p), Entry(p)} ELSE {Entry(p)} :
           temp' = [temp EXCEPT ![p] = c]
    /\ UNCHANGED <<hotkeyVars, daemonVars, reader, written>>

\* _write_pid_file renaming the temporary file before it is complete.
ReplaceEarly(p) ==
    /\ temp[p] # NoTemp
    /\ pid_file' = temp[p]
    /\ temp' = [temp EXCEPT ![p] = NoTemp]
    /\ written' = [written EXCEPT !.last = p]
    /\ UNCHANGED <<hotkeyVars, procs, client, reader>>

\* _write_pid_file: os.replace(temp_file, pid_file)
Replace(p) ==
    /\ temp[p] = Entry(p)
    /\ pid_file' = temp[p]
    /\ temp' = [temp EXCEPT ![p] = NoTemp]
    /\ written' = [written EXCEPT !.last = p]
    /\ UNCHANGED <<hotkeyVars, procs, client, reader>>

\* get_pid_file().unlink(missing_ok=True), by whoever calls it
Unlink ==
    /\ pid_file' = Missing
    /\ written' = [written EXCEPT !.last = 0]
    /\ UNCHANGED <<hotkeyVars, procs, client, temp, reader>>

\* start_daemon of process p reaches _write_pid_file(os.getpid()).
WriteEnter(p) ==
    /\ procs[p].kind = "none"
    /\ temp[p] = NoTemp
    /\ procs' = [procs EXCEPT ![p] = [NoProc EXCEPT !.kind = "stt", !.pc = "write"]]
    /\ UNCHANGED <<hotkeyVars, regVars, pid_file, client>>

\* _write_pid_file inside start_daemon: the temporary file is created
WriteCreate(p) ==
    /\ procs[p].pc = "write"
    /\ TempCreate(p)

\* _write_pid_file inside start_daemon: the text is written
WriteText(p) ==
    /\ procs[p].pc = "write"
    /\ TempWrite(p)

\* _write_pid_file inside start_daemon: os.replace succeeds, the finally
\* clause finds no temporary file, and start_daemon goes on to STTDaemon()
WriteReplace(p) ==
    /\ procs[p].pc = "write"
    /\ temp[p] = Entry(p)
    /\ pid_file' = temp[p]
    /\ temp' = [temp EXCEPT ![p] = NoTemp]
    /\ written' = [written EXCEPT !.last = p]
    /\ procs' = [procs EXCEPT ![p].pc = "construct"]
    /\ UNCHANGED <<hotkeyVars, client, reader>>

\* The steps of _write_pid_file that the file system may refuse.
WriteSteps == {"create", "write", "replace"}

\* _write_pid_file inside start_daemon: mkdir or NamedTemporaryFile
\* ("create"), handle.write ("write") or os.replace ("replace") raises
\* OSError. The finally clause unlinks the temporary file if there is one;
\* there is no except clause, here or in start_daemon, whose call of
\* _write_pid_file stands before its try: the exception ends the process.
WriteFails(p, at) ==
    /\ procs[p].pc = "write"
    /\ CASE at = "create" -> temp[p] = NoTemp
         [] at = "write" -> temp[p].kind \in {"empty", "partial"}
         [] at = "replace" -> temp[p] = Entry(p)
    /\ temp' = [temp EXCEPT ![p] = NoTemp]
    /\ procs' = [procs EXCEPT ![p].pc = "done", ![p].outcome = "raised"]
    /\ UNCHANGED <<hotkeyVars, pid_file, client, reader, written>>

\* ------------------------------------------------------- specifications

\* No call of _write_pid_file or _read_pid_file is under way.
RegQuiet ==
    /\ temp = [p \in Pids |-> NoTemp]
    /\ reader = NoRead
    /\ written = [initial |-> pid_file, last |-> 0]

DaemonInit ==
    /\ pid_file = Missing
    /\ procs = [p \in Pids |-> NoProc]
    /\ client = Idle
    /\ RegQuiet

Init == HotkeyInit /\ DaemonInit

\* The listener under key events.
Next ==
    \/ \E key \in RawKeys : OnPress(key)
    \/ \E key \in RawKeys : OnRelease(key)
    \/ \E t \in ThreadIds : WorkerLoop(t)
    \/ \E t \in ThreadIds : WorkerGet(t)
    \/ \E t \in ThreadIds : WorkerCall(t)
    \/ \E t \in ThreadIds : WorkerCallbackDone(t)
    \/ \E t \in ThreadIds : WorkerCallbackRaises(t)
    \/ \E t \in ThreadIds : WorkerExcept(t)

Spec == Init /\ [][Next]_vars

\* The listener under start(), stop() and the events of the input hook.
LifeNext ==
    \/ CallStart
    \/ \E o \in {"running", "dead", "none"} : StartListener(o)
    \/ StartWorker
    \/ CallStop
    \/ StopListener
    \/ StopSet
    \/ StopPut
    \/ StopJoin
    \/ \E type \in {"press", "release"}, key \in HookKeys : HookEnter(type, key)
    \/ HookBody
    \/ \E t \in ThreadIds : WorkerLoop(t)
    \/ \E t \in ThreadIds : WorkerGet(t)
    \/ \E t \in ThreadIds : WorkerCall(t)
    \/ \E t \in ThreadIds : WorkerCallbackDone(t)
    \/ \E t \in ThreadIds : WorkerCallbackRaises(t)
    \/ \E t \in ThreadIds : WorkerExcept(t)

LifeSpec == Init /\ [][LifeNext]_vars

\* The registry and the process table with a listener that is not touched.
RegistryInit == Init /\ mode = "toggle"

\* The constructor called with a hotkey string, before it parses it.
ConstructInit ==
    /\ FreshListener
    /\ ctor \in {[pc |-> "called", hotkey |-> h, keys |-> {}] : h \in HotkeyStrings}
    /\ DaemonInit

ConstructNext == ListenerInit

ConstructSpec == ConstructInit /\ [][ConstructNext]_vars

\* The registry file as a process may find it, with no process looked at.
FileInit ==
    /\ HotkeyInit
    /\ mode = "toggle"
    /\ pid_file \in FileContents
    /\ procs = [p \in Pids |-> NoProc]
    /\ client = Idle
    /\ RegQuiet

\* One reader at a time against writers and unlinks of the registry file.
FileNext ==
    \/ ReadCall
    \/ ReadExists
    \/ ReadText
    \/ \E p \in Pids : TempCreate(p)
    \/ \E p \in Pids : TempWrite(p)
    \/ \E p \in Pids : Replace(p)
    \/ Unlink

FileSpec == FileInit /\ [][FileNext]_vars

\* Invocations of start writing their registry entry over any content of
\* the file, on a file system that may refuse each step.
WriteNext ==
    \/ \E p \in Pids : WriteEnter(p)
    \/ \E p \in Pids : WriteCreate(p)
    \/ \E p \in Pids : WriteText(p)
    \/ \E p \in Pids : WriteReplace(p)
    \/ \E p \in Pids, at \in WriteSteps : WriteFails(p, at)
    \/ \E p \in Pids : Exit(p)

WriteSpec == FileInit /\ [][WriteNext]_vars

\* Concurrent invocations of start, foreground and background.
StartNext ==
    \/ \E p \in Pids, b \in BOOLEAN : InvokeStart(p, b)
    \/ \E p \in Pids : StartRead(p)
    \/ \E p \in Pids : StartProbe(p)
    \/ \E p \in Pids, c \in Pids : Spawn(p, c)
    \/ \E p \in Pids : SpawnFails(p)
    \/ \E p \in Pids : PollRead(p)
    \/ \E p \in Pids : PollProbe(p)
    \/ \E p \in Pids : WritePid(p)
    \/ \E p \in Pids : Construct(p)
    \/ \E p \in Pids : ConstructFails(p)
    \/ \E p \in Pids : LeaveLoop(p)
    \/ \E p \in Pids : Cleanup(p)
    \/ \E p \in Pids : Exit(p)
    \/ \E p \in Pids : Dies(p)
    \/ \E p \in Pids, k \in {"foreign", "opaque"} : ForeignStarts(p, k)

StartSpec == RegistryInit /\ [][StartNext]_vars

\* One invocation of stop or toggle at a time, against daemons that come up
\* and leave, deaths and pid reuse.
StopNext ==
    \/ \E p \in Pids : StartForeground(p)
    \/ \E p \in Pids : LeaveLoop(p)
    \/ \E p \in Pids : Cleanup(p)
    \/ \E p \in Pids : Exit(p)
    \/ \E p \in Pids : Dies(p)
    \/ \E p \in Pids, k \in ForeignKinds : ForeignStarts(p, k)
    \/ InvokeStop
    \/ StopRead
    \/ StopInspect
    \/ StopLooks
    \/ StopTerm
    \/ StopPoll
    \/ StopForce
    \/ StopUnlink
    \/ InvokeToggle
    \/ ToggleRead
    \/ ToggleProbe
    \/ ToggleSend

StopSpec == RegistryInit /\ [][StopNext]_vars

\* Numbers a registry file may hold that are no process id.
NonPids == {0, -1}

\* A registry file left behind with a number in it, a process id or not, as
\* a record or bare.
AnyEntryInit ==
    /\ HotkeyInit
    /\ mode = "toggle"
    /\ pid_file \in {[kind |-> k, pid |-> n] :
                        k \in {"json", "bare"}, n \in NonPids \union Pids}
    /\ procs = [p \in Pids |-> NoProc]
    /\ client = Idle
    /\ RegQuiet

\* Invocations of stop, one at a time, over such a file.
StopAnyNext ==
    \/ \E p \in Pids : StartForeground(p)
    \/ \E p \in Pids : LeaveLoop(p)
    \/ \E p \in Pids : Cleanup(p)
    \/ \E p \in Pids : Exit(p)
    \/ \E p \in Pids : Dies(p)
    \/ \E p \in Pids, k \in ForeignKinds : ForeignStarts(p, k)
    \/ InvokeStop
    \/ StopRead
    \/ StopInspect
    \/ StopLooks
    \/ StopTerm
    \/ StopPoll
    \/ StopForce
    \/ StopUnlink

StopAnySpec == AnyEntryInit /\ [][StopAnyNext]_vars

\* A registry entry left behind, naming any pid, and no process yet.
StatusInit ==
    /\ HotkeyInit
    /\ mode = "toggle"
    /\ pid_file \in {Entry(p) : p \in Pids}
    /\ procs = [p \in Pids |-> NoProc]
    /\ client = Idle
    /\ RegQuiet

\* Invocations of status, one at a time, while daemons and other processes,
\* this user's and other users', come and go.
StatusNext ==
    \/ \E p \in Pids : StartForeground(p)
    \/ \E p \in Pids : Dies(p)
    \/ \E p \in Pids, k \in ForeignKinds \union GuardedKinds : ForeignStarts(p, k)
    \/ InvokeStatus
    \/ StatusRead
    \/ StatusProbe

StatusSpec == StatusInit /\ [][StatusNext]_vars

\* ------------------------------------------------------- hotkey claims

\* The last key event made pressed_keys hold the whole combination.
RisingPress == ev.type = "press" /\ ~ev.held_before /\ ev.held_after

\* C1: in toggle mode, whatever the order of the presses, the press that
\* completes the combination for the first time puts exactly one "start" in
\* the queue, a press while the combination is already held puts nothing,
\* and the press that completes it again after a release puts exactly one
\* "stop"; nothing else is enqueued in between.
C1_ToggleDebounce ==
    mode = "toggle" =>
        /\ n_rise = 0 => log = <<>>
        /\ n_rise = 1 => log = <<"start">>
        /\ n_rise = 2 => log = <<"start", "stop">>
        /\ RisingPress /\ n_rise = 1 => ev.accepted = <<"start">>
        /\ RisingPress /\ n_rise = 2 => ev.accepted = <<"stop">>
        /\ ev.type = "press" /\ ev.held_before =>
               ev.offered = <<>> /\ ev.accepted = <<>>

C1_Witness ==
    /\ mode = "toggle"
    /\ RisingPress /\ n_rise = 2 /\ ev.key = "space"
    /\ ev.accepted = <<"stop">>

\* C2: in push-to-talk mode "start" is handed to the queue by exactly the
\* press that completes the combination, and "stop" by exactly the first
\* release of a member key while recording, whatever else is still held;
\* each goes into the queue unless the queue is full.
C2_PushToTalk ==
    mode = "push-to-talk" =>
        /\ ev.offered = <<"start">> <=> RisingPress
        /\ ev.offered = <<"stop">> <=>
               (ev.type = "release" /\ ev.key \in HotkeyKeys /\ ev.rec_before)
        /\ ev.offered = <<"stop">> => ~is_recording
        /\ ev.room => ev.accepted = ev.offered

C2_Witness ==
    /\ mode = "push-to-talk"
    /\ ev.type = "release" /\ ev.key = "ctrl" /\ ev.offered = <<"stop">>
    /\ ev.accepted = <<"stop">>
    /\ pressed_keys = {"shift", "space", "char_a"}

Alternates(l) ==
    \A i \in 1..Len(l) : l[i] = IF i % 2 = 1 THEN "start" ELSE "stop"

\* C3: in push-to-talk mode the events the press and release handlers emit
\* alternate start, stop, start, ... beginning with start, over every
\* sequence of press and release events.
C3_PushToTalkAlternates == mode = "push-to-talk" => Alternates(log)

C3_Witness ==
    /\ mode = "push-to-talk"
    /\ Len(log) = 4 /\ log[4] = "stop"
    /\ ev.type = "release" /\ ev.key = "char_a"

\* C4: in toggle mode the number of transitions emitted equals the number of
\* times pressed_keys went from not holding the whole combination to holding
\* it, and no release event emits anything.
C4_ToggleCountsEdges ==
    mode = "toggle" =>
        /\ Len(log) = n_rise
        /\ ev.type = "release" => ev.offered = <<>>

C4_Witness ==
    /\ mode = "toggle"
    /\ n_rise = 3 /\ Len(log) = 3
    /\ ev.type = "release" /\ ev.key = "shift"

\* C18: every press or release that changes _is_recording puts exactly one
\* callback into the queue, start when the flag becomes true and stop when
\* it becomes false.
C18_FlagChangeEnqueues ==
    (ev.type # "none" /\ ev.rec_before # is_recording) =>
        ev.accepted = <<IF is_recording THEN "start" ELSE "stop">>

\* C19: a callback that raised leaves the worker that ran it alive and the
\* only worker, with the stop flag clear, and the step out of the except
\* clause goes back to the head of the loop with the queue as it was.
C19_RaiseKeepsWorker ==
    /\ [](raised =>
            /\ worker_thread = 1
            /\ IsAlive(1)
            /\ ~worker_stop
            /\ \A t \in ThreadIds \ {1} : threads[t] = "unborn")
    /\ [][\A t \in ThreadIds :
             (threads[t] = "except" /\ threads'[t] # "except") =>
                 /\ threads'[t] = "loop"
                 /\ event_queue' = event_queue
                 /\ worker_thread' = worker_thread
         ]_vars

C19_Witness ==
    /\ raised
    /\ threads[1] = "callback"
    /\ Len(event_queue) = 2
    /\ Len(log) = 4

\* C20: the queue never holds more than 8 items, and an event offered while
\* it holds 8 is dropped with the queue left as it was, in a single step of
\* the press or release that offered it.
C20_QueueBounded ==
    /\ [](Len(event_queue) <= QueueMaxSize)
    /\ [](ev.offered # <<>> /\ ~ev.room => ev.accepted = <<>>)
    /\ [][(Len(event_queue) = QueueMaxSize /\ log' # log) =>
             /\ event_queue' = event_queue
             /\ ev'.offered # <<>>
             /\ ev'.accepted = <<>>
             /\ threads' = threads
         ]_vars

C20_Witness ==
    /\ Len(event_queue) = QueueMaxSize
    /\ ev.offered = <<"stop">>
    /\ ev.accepted = <<>>
    /\ ~ev.room
    /\ Len(log) = 10

\* C15: the constructor raises HotkeyError for an empty or blank hotkey
\* string and for one with a part that names no key; a listener that is
\* built has a key set that is not empty; and when it raises no worker
\* thread has been started.
C15_InvalidHotkeyRejected ==
    ctor.pc # "called" =>
        /\ IsBlank(ctor.hotkey) => ctor.pc = "raised"
        /\ (\E i \in 1..Len(ctor.hotkey) : ctor.hotkey[i] \in UnknownTokens) =>
               ctor.pc = "raised"
        /\ ctor.pc = "built" => ctor.keys # {}
        /\ ctor.hotkey = Built.hotkey => ctor = Built
        /\ ctor.pc = "raised" =>
               /\ worker_thread = 0
               /\ \A t \in ThreadIds : threads[t] = "unborn"
               /\ event_queue = <<>>

C15_Witness ==
    /\ ctor.pc = "raised"
    /\ ctor.hotkey = <<"ctrl", "unknownkey">>
    /\ worker_thread = 0

\* The worker threads that are inside a callback.
InCallback == {t \in ThreadIds : threads[t] \in {"callback", "except"}}

\* C26: the press and release handlers run no callback themselves: a step
\* of a handler puts no thread into a callback and calls none, and all it
\* does to the threads is start the worker; and while a callback runs on
\* the worker, for however long, every press and release can be handled at
\* once, whether the queue has room or not.
C26_HandlersOnlyEnqueue ==
    /\ [][(ev' # ev \/ log' # log \/ pressed_keys' # pressed_keys) =>
             /\ {t \in ThreadIds : threads'[t] \in {"callback", "except"}} = InCallback
             /\ order'.called = order.called
             /\ order'.taken = order.taken
             /\ \A t \in ThreadIds :
                    threads'[t] # threads[t] =>
                        threads[t] = "unborn" /\ threads'[t] = "loop"
         ]_vars
    /\ []((InCallback # {} /\ WithinBounds) =>
            \A key \in RawKeys : ENABLED OnPress(key) /\ ENABLED OnRelease(key))

C26_Witness ==
    /\ threads[1] = "callback"
    /\ Len(event_queue) = QueueMaxSize
    /\ ev.type = "release"
    /\ ev.offered = <<"stop">>
    /\ ev.accepted = <<>>
    /\ order.called = 1

\* ------------------------------------------ listener lifecycle claims

\* The worker threads that are alive and at the queue's get.
AtQueue == {t \in ThreadIds : threads[t] = "get"}

\* C24: at most one worker thread is alive and consuming the queue at any
\* time: no two threads are at the queue's get together.
C24_OneWorker == Cardinality(AtQueue) <= 1

\* C25: callbacks are called in the order their events entered the queue:
\* the event whose callback a worker enters was accepted later than every
\* event whose callback was entered before.
C25_CallbackOrder ==
    [][\A t \in ThreadIds :
          (threads[t] = "got" /\ threads'[t] = "callback") =>
              order.taken[t] > order.called
      ]_vars

\* self._lock is held, by the input-hook thread inside a handler.
LockHeld == hook.pc = "locked"

\* C32: an event accepted into the queue while the listener was running is
\* invoked without a later key event or call: while it waits in the queue of
\* a running listener, with no handler and no call of start() or stop()
\* under way, a worker is alive to take it; this also after stop() and
\* start(), whatever the earlier session left in the queue and the flag.
C32_AcceptedIsServed ==
    (/\ listener = "running"
     /\ caller.pc = "idle"
     /\ hook.pc = "idle"
     /\ \E i \in DOMAIN order.queue : order.queue[i] \in order.live) =>
        \E t \in ThreadIds : IsAlive(t)

\* C33: on a listener that is running with no call of start() or stop()
\* under way, in particular one started again after stop() with the
\* combination held when stop() was called, the press that brings the
\* combination to be fully held while not recording enqueues start.
C33_PressAfterRestartTriggers ==
    [][(/\ hook.pc = "locked"
        /\ hook'.pc = "idle"
        /\ listener = "running"
        /\ caller.pc = "idle"
        /\ ev'.type = "press"
        /\ ~ev'.held_before
        /\ ev'.held_after
        /\ ~ev'.rec_before) =>
           ev'.offered = <<"start">>
      ]_vars

\* C27: every step that changes pressed_keys is taken by the thread that
\* holds the listener's lock: it is the handler's block under the lock,
\* which ends by releasing it.
C27_MutationUnderLock ==
    [][(pressed_keys' # pressed_keys) => (LockHeld /\ hook'.pc = "idle")]_vars

\* C28: when a call of stop() returns, pressed_keys is empty.
C28_StopClearsKeys ==
    [][(caller.pc \in {"stop_put", "stop_join"} /\ caller'.pc = "idle") =>
          pressed_keys' = {}
      ]_vars

\* C29: _hotkey_active is true only if every key of the combination is in
\* pressed_keys.
C29_ActiveImpliesHeld == hotkey_active => Held(pressed_keys)

\* ------------------------------------------------------- daemon claims

\* C5: when the registry entry names a pid that has no process, stop and
\* toggle (like start) delete the entry before they return; for stop this
\* is the case where the soft-terminate signal fails with a non-permission
\* error.
C5_StaleEntryDeleted ==
    (client.pc = "returned" /\ client.stale) => client.unlinked

\* C6: when all the polls of stop's wait loop found the process it had sent
\* the soft terminate to, stop issues the hard terminate before it unlinks
\* the registry file, and it returns by unlinking the registry file.
C6_StopEscalates ==
    /\ (client.pc \in {"stop_unlink", "returned"} /\ client.polls = StopPolls) =>
           /\ client.force \in {"sent", "failed"}
           /\ \E k \in {"stt"} \union ForeignKinds : <<"TERM", k>> \in client.sent
           /\ client.force = "sent" =>
                  \E k \in {"stt"} \union ForeignKinds : <<"KILL", k>> \in client.sent
    /\ (client.pc = "returned" /\ client.polls = StopPolls) =>
           client.unlinked /\ client.outcome = "stopped"
    /\ (client.pc = "stop_force" \/ client.force # "none") => client.polls = StopPolls

C6_Witness ==
    /\ client.pc = "returned"
    /\ client.polls = StopPolls
    /\ client.sent = {<<"TERM", "stt">>, <<"KILL", "stt">>}
    /\ client.force = "sent"
    /\ pid_file = Missing
    /\ KindOf(client.pid) = "none"

\* C7: a step of start(background=true) that probes the registered pid
\* while that pid is a live daemon of this program ends the invocation with
\* "already running": the registry file and every other process are left as
\* they were, so no child is spawned and nothing is written; and the read
\* before it changes nothing but the invocation's own position.
C7_StartBackgroundNoOp ==
    [][\A p \in Pids :
         /\ (/\ procs[p].pc = "start_probe"
             /\ procs[p].bg
             /\ pid_file = Entry(procs[p].data)
             /\ LiveDaemon(procs[p].data)
             /\ procs'[p] # procs[p]
             /\ procs'[p].kind = "stt") =>
                /\ procs'[p].pc = "done"
                /\ procs'[p].outcome = "already_running"
                /\ pid_file' = pid_file
                /\ \A q \in Pids \ {p} : procs'[q] = procs[q]
         /\ (/\ procs[p].pc = "start_read"
             /\ procs'[p] # procs[p]
             /\ procs'[p].kind = "stt") =>
                /\ pid_file' = pid_file
                /\ \A q \in Pids \ {p} : procs'[q] = procs[q]
      ]_vars

C7_Witness ==
    \E p \in Pids, q \in Pids :
        /\ procs[p].pc = "done"
        /\ procs[p].bg
        /\ procs[p].outcome = "already_running"
        /\ pid_file = Entry(q)
        /\ procs[q].kind = "stt"
        /\ procs[q].pc = "main_loop"

\* C8: at most one daemon is inside its main loop at any time.
C8_OneMainLoop ==
    Cardinality({p \in Pids : procs[p].kind = "stt" /\ procs[p].pc = "main_loop"}) <= 1

\* C9: toggle sends its signal to no process whose command line can be
\* read and lacks the identity token, and does not report success then.
C9_ToggleOnlyVerified ==
    client.op = "toggle" => <<"USR1", "foreign">> \notin client.sent

\* C10: when stop finds at the registered pid a process whose command line
\* it can read and which lacks the identity token, it unlinks the registry
\* file and returns at once, having sent no signal.
C10_StopRefusesForeign ==
    client.foreign =>
        /\ client.pc = "returned"
        /\ client.outcome = "refused"
        /\ client.unlinked
        /\ client.sent = {}
        /\ client.force = "none"

C10_Witness ==
    /\ client.foreign
    /\ client.outcome = "refused"
    /\ KindOf(client.pid) = "foreign"
    /\ pid_file = Missing

\* C11: the step of stop that sends the soft terminate to a process this
\* user may not signal returns at once with "Permission denied": the
\* registry file is as it was, no process is touched, no signal has been
\* sent, no poll was made and the hard terminate was not issued.
C11_StopPermissionDenied ==
    [][(/\ client.pc = "stop_term"
        /\ KindOf(client.pid) = "denied"
        /\ client' # client) =>
           /\ client'.pc = "returned"
           /\ client'.outcome = "denied"
           /\ pid_file' = pid_file
           /\ procs' = procs
           /\ client'.sent = {}
           /\ client'.polls = 0
           /\ client'.force = "none"
           /\ ~client'.unlinked
      ]_vars

C11_Witness ==
    /\ client.op = "stop"
    /\ client.pc = "returned"
    /\ client.outcome = "denied"
    /\ pid_file = Entry(client.pid)
    /\ KindOf(client.pid) = "denied"

\* C12: once an invocation of start that wrote its registry entry has
\* returned or raised (from STTDaemon() or from daemon.run()), the registry
\* holds no entry naming that process.
C12_RunRemovesOwnEntry ==
    \A p \in Pids :
        (procs[p].pc = "done" /\ procs[p].outcome = "ran") => pid_file # Entry(p)

C12_Witness ==
    \E p \in Pids :
        /\ procs[p].pc = "done"
        /\ procs[p].outcome = "ran"
        /\ pid_file = Missing
        /\ \A q \in Pids \ {p} : procs[q].kind = "none"

\* A step of the invocation of stop.
StopStep ==
    \/ StopRead
    \/ StopInspect
    \/ StopLooks
    \/ StopTerm
    \/ StopPoll
    \/ StopForce
    \/ StopUnlink

\* The steps an invocation of stop has left at most.
StopRank(c) ==
    CASE c.pc = "stop_read" -> StopPolls + 6
      [] c.pc = "stop_inspect" -> StopPolls + 5
      [] c.pc = "stop_looks" -> StopPolls + 4
      [] c.pc = "stop_term" -> StopPolls + 3
      [] c.pc = "stop_poll" -> StopPolls - c.polls + 2
      [] c.pc = "stop_force" -> 2
      [] c.pc = "stop_unlink" -> 1
      [] OTHER -> 0

\* C21: an invocation of stop returns within StopPolls + 6 steps whatever
\* the other processes do: it can always take its next step, each step
\* brings it nearer to its return, the wait loop makes at most StopPolls
\* polls, and the poll that is the last one goes on to the hard terminate
\* or, the process being gone, to the unlink.
C21_StopBounded ==
    /\ [](client.op = "stop" =>
            /\ client.polls <= StopPolls
            /\ StopRank(client) \in 0..(StopPolls + 6)
            /\ client.pc # "returned" => ENABLED StopStep)
    /\ [][(client.op = "stop" /\ client.pc # "returned" /\ client' # client) =>
             /\ StopRank(client') < StopRank(client)
             /\ (client.pc = "stop_poll" /\ client.polls = StopPolls - 1) =>
                    client'.pc \in {"stop_force", "stop_unlink"}
         ]_vars

C21_Witness ==
    /\ client.op = "stop"
    /\ client.pc = "returned"
    /\ client.polls = StopPolls
    /\ client.force = "failed"
    /\ PidExists(client.pid)

\* C22: a step that deletes the registry entry is the cleanup of the daemon
\* the entry names, or the process the entry names is at that moment not a
\* live daemon of this program.
C22_DeletesOwnOrStale ==
    [][(pid_file.kind # "missing" /\ pid_file'.kind = "missing") =>
          \/ /\ procs[pid_file.pid].pc = "cleanup"
             /\ procs'[pid_file.pid].pc = "done"
          \/ ~LiveDaemon(pid_file.pid)
      ]_vars

\* The signals of one name an invocation has sent.
Sent(name) == {m \in client.sent : m[1] = name}

\* C23: the hard terminate is issued only by an invocation of stop that
\* sent the soft terminate and then found the process at every one of the
\* StopPolls polls, and it goes to the pid the soft terminate went to; no
\* other step and no invocation of toggle sends a terminate signal.
C23_HardAfterSoft ==
    /\ []((client.force # "none" \/ Sent("KILL") # {}) =>
            /\ client.op = "stop"
            /\ Sent("TERM") # {}
            /\ client.polls = StopPolls
            /\ ~client.gone)
    /\ [](client.op = "toggle" => Sent("TERM") = {})
    /\ [][(client'.force # "none" /\ client'.force # client.force) =>
             /\ client.pc = "stop_force"
             /\ client.force = "none"
             /\ Sent("TERM") # {}
             /\ client.polls = StopPolls
         ]_vars
    /\ [][(client.pc \in {"stop_term", "stop_poll", "stop_force"}) =>
             client'.pid = client.pid
         ]_vars

C23_Witness ==
    /\ client.pc = "stop_unlink"
    /\ client.force = "sent"
    /\ client.sent = {<<"TERM", "stt">>, <<"KILL", "opaque">>}
    /\ client.polls = StopPolls

\* C34: stop sends no soft and no hard terminate signal to a pid that is
\* less than or equal to 0: an invocation that read such a pid from the
\* registry has sent nothing.
C34_NoSignalToNonPositive ==
    (client.op = "stop" /\ client.pid <= 0) => client.sent = {}

\* C30: when the existence probe or the identity inspection of the registered
\* pid is denied for lack of permission, status reports the daemon as running
\* and leaves the registry entry in place: a refusal is never taken for
\* "not running".
C30_DeniedCountsAsRunning ==
    [][(/\ client.pc = "status_probe"
        /\ client' # client
        /\ KindOf(client.pid) \in {"denied", "hidden", "protected"}) =>
           /\ client'.outcome = "running"
           /\ pid_file' = pid_file
      ]_vars

\* ------------------------------------------------ registry file claims

\* C13: a read that takes the text of the registry file while it is as the
\* os.replace of write(pid) left it returns a record whose pid is that pid.
C13_WriteReadRoundTrip ==
    (reader.pc = "done" /\ reader.after # 0) =>
        reader.result = [some |-> TRUE, pid |-> reader.after]

C13_Witness ==
    /\ reader.pc = "done"
    /\ reader.after = NumPids
    /\ reader.result = [some |-> TRUE, pid |-> NumPids]
    /\ written.initial.kind = "garbage"

\* C14: a read of a file that is neither an object whose pid is an integer
\* (as a number or as its digits) nor a bare integer returns None.
C14_ReadOtherIsNone ==
    (reader.pc = "done" /\ reader.raw.kind \notin {"json", "json_str", "bare"}) =>
        ~reader.result.some

\* C31: write(pid) never raises to its caller: whenever it ends, on a file
\* system error too, its caller goes on (to construct the daemon), no
\* temporary file of it is left, and the registry file holds what it held
\* before or, after a rename that succeeded, the entry of pid.
C31_WriteFailsSilently ==
    [][\A p \in Pids :
          (procs[p].pc = "write" /\ procs'[p].pc # "write") =>
              /\ procs'[p].pc = "construct"
              /\ procs'[p].outcome # "raised"
              /\ temp'[p] = NoTemp
              /\ pid_file' \in {pid_file, Entry(p)}
      ]_vars

\* C17: a read concurrent with writes never takes a torn text from the
\* registry file: the text it parsed is the one present at the start or
\* the complete text of one write, and what it returns is None or the record
\* of that text; the registry file itself never holds a torn text.
C17_NoTornRead ==
    /\ pid_file.kind # "partial"
    /\ reader.pc = "done" =>
           /\ \/ reader.raw = Missing
              \/ reader.raw = written.initial
              \/ \E p \in Pids : reader.raw = Entry(p)
           /\ \/ ~reader.result.some
              \/ reader.result = ParsePidFile(written.initial)
              \/ \E p \in Pids : reader.raw = Entry(p) /\ reader.result.pid = p

C17_Witness ==
    /\ reader.pc = "done"
    /\ reader.raw = Entry(1)
    /\ reader.result = [some |-> TRUE, pid |-> 1]
    /\ written.initial.kind = "bare"
    /\ temp[NumPids] = Partial(NumPids)
    /\ pid_file = Entry(1)

====
